---- MODULE Spec2Model ----
(***************************************************************************)
(* krumnet: the connection routing engine (src/lib.rs: serve, route) and   *)
(* the games handlers (src/routes/games/mod.rs) together with the job      *)
(* queue they enqueue into.                                                *)
(*                                                                         *)
(* One task per accepted connection runs route; a task is suspended only   *)
(* at an .await, so every action below runs from one .await to the next.   *)
(* Variables of route that are dead after a step are blanked in that step. *)
(***************************************************************************)
EXTENDS Integers, Sequences, FiniteSets, TLC

\* Number of connections the listener hands to the accept loop.
MaxConns == 2

Conns == 1 .. MaxConns

----------------------------------------------------------------------------
\* Values

Blank == "-"

\* Authority::None and the users a session resolves to.
None == "None"

Users == {"U1"}

Authorities == {None} \cup Users

\* configuration.krumi.cors_origin, returned by context.cors().
CorsOrigin == "cors_origin"

\* Methods elaine recognizes in a request head.
Methods == {"GET", "POST", "OPTIONS"}

\* head.method() / head.path() returning None, and a path Uri cannot parse.
NoMethod == "no-method"

NoPath == "no-path"

BadUri == "bad-uri"

\* Paths (uri.path()) of the requests sent to the server.
Paths == {"/games", "/round-entries", "/jobs", "/health-check", "/missing"}

\* The request heads the recognizer produces.
Heads ==
  (Methods \X Paths) \cup {<<NoMethod, "/games">>, <<"GET", NoPath>>, <<"GET", BadUri>>}

\* Rows of the record store the queries of the games handlers look at:
\* the lobbies a user is a member of, the rounds a user may enter (with
\* their game and lobby), the games a user may load.
LobbyIds == {"L1", "L2"}

LobbyMembers == {<<"L1", "U1">>, <<"L2", "U2">>}

RoundIds == {"R1", "R2"}

RoundMembers == {<<"R1", "U1">>}

GameIds == {"G1", "G2"}

GameMembers == {<<"G1", "U1">>}

----------------------------------------------------------------------------
\* Responses (crate::http::Response)

NoBody == << >>

NoResponse == [kind |-> Blank, cors |-> Blank, body |-> NoBody]

\* Response::default()
ResponseDefault == [kind |-> "default", cors |-> Blank, body |-> NoBody]

\* Response::not_found()
ResponseNotFound == [kind |-> "not_found", cors |-> Blank, body |-> NoBody]

\* Response::failed()
ResponseFailed == [kind |-> "failed", cors |-> Blank, body |-> NoBody]

\* Response::ok_json(value)
ResponseOkJson(value) == [kind |-> "ok_json", cors |-> Blank, body |-> value]

\* response.cors(context.cors())
Cors(response) == [response EXCEPT !.cors = CorsOrigin]

\* interchange::http::JobHandle { id, result }
JobHandle(id, result) == [tag |-> "JobHandle", id |-> id, result |-> result]

\* interchange::http::GameDetails { id, .. }
GameDetails(gid) == [tag |-> "GameDetails", id |-> 0, result |-> gid]

\* HealthCheckData { time, version }
HealthCheckData == [tag |-> "HealthCheckData", id |-> 0, result |-> "version"]

\* std::io::Result<Response>
NoError == "none"

Ok(response) == [ok |-> TRUE, response |-> response, err |-> NoError]

Err(e) == [ok |-> FALSE, response |-> NoResponse, err |-> e]

\* The errors a handler can return with `?`.
HandlerErrors == {"read", "deserialize", "query", "queue"}

\* The errors route returns to the task that called it.
RouteErrors == {"recognize", "for_request", "extract_parts", "parse", "write"}

----------------------------------------------------------------------------
\* Jobs (interchange::jobs::Job) and the job store

CreateGame(creator, lobby_id) ==
  [variant |-> "CreateGame", creator |-> creator, key |-> lobby_id, result |-> "null"]

CheckRoundFulfillment(round_id) ==
  [variant |-> "CheckRoundFulfillment", creator |-> Blank, key |-> round_id, result |-> "null"]

NoJob == [variant |-> Blank, creator |-> Blank, key |-> Blank, result |-> Blank]

----------------------------------------------------------------------------
\* The route table: the arms of the match in route, in order.

PreflightArm == "preflight"

NotFoundArm == "not-found"

RouteTable ==
  { <<"GET", "/auth/redirect", "oauth::redirect">>,
    <<"GET", "/auth/identify", "routes::identify">>,
    <<"GET", "/auth/destroy", "routes::destroy">>,
    <<"GET", "/auth/callback", "oauth::callback">>,
    <<"GET", "/health-check", "health_check">>,
    <<"GET", "/jobs", "jobs::find">>,
    <<"GET", "/lobbies", "lobbies::find">>,
    <<"POST", "/lobbies", "lobbies::create">>,
    <<"POST", "/lobby-memberships", "lobby_memberships::create_membership">>,
    <<"DELETE", "/lobby-memberships", "lobby_memberships::destroy_membership">>,
    <<"POST", "/games", "games::create">>,
    <<"GET", "/games", "games::find">>,
    <<"GET", "/rounds", "rounds::find">>,
    <<"POST", "/round-entry-votes", "games::create_entry_vote">>,
    <<"POST", "/round-entries", "games::create_entry">>
  }

Registered == { <<r[1], r[2]>> : r \in RouteTable }

Handlers == { r[3] : r \in RouteTable }

\* The handlers whose code is in src/routes/games/mod.rs and src/lib.rs.
GamesHandlers == {"games::create", "games::find", "games::create_entry"}

\* The handlers a request of Heads can reach.
ReachedHandlers == GamesHandlers \cup {"health_check", "jobs::find"}

\* Route with the preflight arm written for the registered paths only.
RoutePreflightRegistered(method, path) ==
  IF method = "OPTIONS" /\ path \in { r[2] : r \in RouteTable } THEN PreflightArm
  ELSE IF <<method, path>> \in Registered
       THEN (CHOOSE r \in RouteTable : r[1] = method /\ r[2] = path)[3]
       ELSE NotFoundArm

\* Route with a catch-all GET arm in front of the fallback.
RouteCatchAllGet(method, path) ==
  IF method = "OPTIONS" THEN PreflightArm
  ELSE IF <<method, path>> \in Registered
       THEN (CHOOSE r \in RouteTable : r[1] = method /\ r[2] = path)[3]
       ELSE IF method = "GET" THEN "health_check" ELSE NotFoundArm

Route(method, path) ==
  IF method = "OPTIONS" THEN PreflightArm
  ELSE IF <<method, path>> \in Registered
       THEN (CHOOSE r \in RouteTable : r[1] = method /\ r[2] = path)[3]
       ELSE NotFoundArm

----------------------------------------------------------------------------
\* The games handlers, cut at their .await points.  Each part returns
\* either the handler's Result or the job it goes on to enqueue.

Return(result) == [done |-> TRUE, result |-> result, job |-> NoJob, inserted |-> FALSE]

Continue(job, inserted) ==
  [done |-> FALSE, result |-> Ok(NoResponse), job |-> job, inserted |-> inserted]

\* read_size_async(reader, context.pending()) then deserialize(&contents):
\* an I/O error fails the read; a body cut at the size limit or a body that
\* is not the payload fails to deserialize.
BodyKinds == {"ok", "malformed", "oversized", "io_error"}

NoPayload == [kind |-> Blank, value |-> Blank]

Bodies(values) == { [kind |-> k, value |-> IF k = "ok" THEN v ELSE Blank] : k \in BodyKinds, v \in values }

\* ReadPayload that takes whatever was read as the payload.
ReadPayloadLenient(body) ==
  IF body.kind = "io_error" THEN Err("read")
  ELSE Ok(NoResponse)

ReadPayload(body) ==
  IF body.kind = "io_error" THEN Err("read")
  ELSE IF body.kind # "ok" THEN Err("deserialize")
  ELSE Ok(NoResponse)

\* Outcomes of a record store query: an error, or the rows it selects.
QueryOutcomes == {"err", "rows"}

\* Outcomes of the CREATE_ENTRY insert: an error, no row back, the new row.
InsertOutcomes == {"err", "none", "row"}

\* games::find and find_game (no .await before the response).
find_game(uid, gid, load, details) ==
  IF load = "err" THEN Err("query")
  ELSE IF <<gid, uid>> \notin GameMembers THEN Ok(Cors(ResponseNotFound))
  ELSE IF details = "err" THEN Err("query")
  ELSE Ok(Cors(ResponseOkJson(<<GameDetails(gid)>>)))

find(authority, ids, load, details) ==
  IF authority = None THEN Ok(Cors(ResponseNotFound))
  ELSE IF Len(ids) # 1 THEN Ok(Cors(ResponseNotFound))
  ELSE find_game(authority, ids[1], load, details)

\* create answering an anonymous caller with an error.
create_authority_forbidden(authority) ==
  IF authority = None THEN Return(Err("forbidden"))
  ELSE Continue(NoJob, FALSE)

\* games::create up to read_size_async.
create_authority(authority) ==
  IF authority = None THEN Return(Ok(Cors(ResponseNotFound)))
  ELSE Continue(NoJob, FALSE)

\* create_lookup that does not look at the rows of the lobby query.
create_lookup_unchecked(uid, body, lookup) ==
  IF ~ReadPayload(body).ok THEN Return(ReadPayload(body))
  ELSE IF lookup = "err" THEN Return(Err("query"))
  ELSE Continue(CreateGame(uid, body.value), FALSE)

\* create_lookup that builds the job with its two fields exchanged.
create_lookup_swapped(uid, body, lookup) ==
  IF ~ReadPayload(body).ok THEN Return(ReadPayload(body))
  ELSE IF lookup = "err" THEN Return(Err("query"))
  ELSE IF <<body.value, uid>> \notin LobbyMembers THEN Return(Ok(Cors(ResponseNotFound)))
  ELSE Continue(CreateGame(body.value, uid), FALSE)

\* games::create from read_size_async up to jobs().queue().
create_lookup(uid, body, lookup) ==
  IF ~ReadPayload(body).ok THEN Return(ReadPayload(body))
  ELSE IF lookup = "err" THEN Return(Err("query"))
  ELSE IF <<body.value, uid>> \notin LobbyMembers THEN Return(Ok(Cors(ResponseNotFound)))
  ELSE Continue(CreateGame(uid, body.value), FALSE)

\* create_queued answering as create_entry does, without the identifier.
create_queued_default(queued) ==
  IF ~queued.ok THEN Err("queue")
  ELSE Ok(Cors(ResponseDefault))

\* games::create after jobs().queue().
create_queued(queued) ==
  IF ~queued.ok THEN Err("queue")
  ELSE Ok(Cors(ResponseOkJson(<<JobHandle(queued.id, "null")>>)))

\* create_entry that reads the body before it looks at the authority.
create_entry_authority_late(authority) == Continue(NoJob, FALSE)

\* games::create_entry up to read_size_async.
create_entry_authority(authority) ==
  IF authority = None THEN Return(Ok(Cors(ResponseNotFound)))
  ELSE Continue(NoJob, FALSE)

\* create_entry_insert that enqueues whether or not the insert gave a row.
create_entry_insert_eager(uid, body, lookup, insert) ==
  IF ~ReadPayload(body).ok THEN Return(ReadPayload(body))
  ELSE IF lookup = "err" THEN Return(Err("query"))
  ELSE IF <<body.value, uid>> \notin RoundMembers THEN Return(Ok(Cors(ResponseNotFound)))
  ELSE IF insert = "err" THEN Return(Err("query"))
  ELSE Continue(CheckRoundFulfillment(body.value), insert = "row")

\* games::create_entry from read_size_async up to jobs().queue().
create_entry_insert(uid, body, lookup, insert) ==
  IF ~ReadPayload(body).ok THEN Return(ReadPayload(body))
  ELSE IF lookup = "err" THEN Return(Err("query"))
  ELSE IF <<body.value, uid>> \notin RoundMembers THEN Return(Ok(Cors(ResponseNotFound)))
  ELSE IF insert = "err" THEN Return(Err("query"))
  ELSE IF insert = "none" THEN Return(Ok(Cors(ResponseDefault)))
  ELSE Continue(CheckRoundFulfillment(body.value), TRUE)

\* games::create_entry after jobs().queue().
create_entry_queued(queued) ==
  IF ~queued.ok THEN Ok(Cors(ResponseDefault))
  ELSE Ok(Cors(ResponseDefault))

\* health_check
health_check == Ok(Cors(ResponseOkJson(<<HealthCheckData>>)))

\* unwrap_or_else putting the error into the body of the response.
unwrap_or_else_leaking(result) ==
  IF result.ok THEN result.response
  ELSE [Cors(ResponseFailed) EXCEPT !.body = <<[tag |-> "error", id |-> 0, result |-> result.err]>>]

\* The closure of unwrap_or_else in route.
unwrap_or_else(result) ==
  IF result.ok THEN result.response ELSE Cors(ResponseFailed)

----------------------------------------------------------------------------
\* The job store (crate::jobs::JobStore) and its worker (crate::bg).

\* A stored job: its generated identifier, the job, its status, its result,
\* the connection whose handler enqueued it, the worker executions it had.
JobRecord(id, job, c) ==
  [id |-> id, job |-> job, status |-> "Pending", result |-> "null", by |-> c, runs |-> 0]

\* An identifier that repeats.
NewJobIdRepeating(store) == 1

\* A freshly generated identifier.
NewJobId(store) == Len(store) + 1

\* JobStore::queue(&job) returning Ok(id).
Queued(store, job, c) == Append(store, JobRecord(NewJobId(store), job, c))

JobIds(store) == { store[i].id : i \in 1 .. Len(store) }

\* A status read that answers with the result the record was enqueued with.
JobStatusStale(store, id) ==
  IF id \in JobIds(store)
  THEN LET r == store[CHOOSE i \in 1 .. Len(store) : store[i].id = id]
       IN  [found |-> TRUE, status |-> r.status, result |-> r.job.result]
  ELSE [found |-> FALSE, status |-> Blank, result |-> Blank]

\* The status read of one identifier: the stored record, or not found.
JobStatus(store, id) ==
  IF id \in JobIds(store)
  THEN LET r == store[CHOOSE i \in 1 .. Len(store) : store[i].id = id]
       IN  [found |-> TRUE, status |-> r.status, result |-> r.result]
  ELSE [found |-> FALSE, status |-> Blank, result |-> Blank]

\* routes::jobs::find for one requested identifier.
jobs_find(store, id) ==
  IF JobStatus(store, id).found
  THEN Ok(Cors(ResponseOkJson(<<JobHandle(id, JobStatus(store, id).result)>>)))
  ELSE Ok(Cors(ResponseNotFound))

\* The outcomes of a worker execution of a pending job.
Completions == { [status |-> "Completed", result |-> "result"],
                 [status |-> "Failed", result |-> "null"] }

\* A worker that claims records whatever their status.
ClaimableAny(store) == 1 .. Len(store)

\* The records a worker may claim.
Claimable(store) == { i \in 1 .. Len(store) : store[i].status = "Pending" }

----------------------------------------------------------------------------
\* State

VARIABLES
  accepted,    \* connections the accept loop has spawned a task for
  lastAccept,  \* the last item of listener.incoming(): "ok" or "err"
  conn,        \* per connection: the task running route, and its connection
  jobs,        \* the job store
  entries      \* the round entries the record store holds

vars == <<accepted, lastAccept, conn, jobs, entries>>

\* A connection the listener has not produced yet.
NewConn ==
  [ pc        |-> "listening",  \* where the task is suspended
    method    |-> Blank,        \* head.method()
    path      |-> Blank,        \* uri.path()
    authority |-> Blank,        \* ctx.authority()
    arm       |-> Blank,        \* the arm of the match taken
    handler   |-> Blank,        \* the handler invoked
    bodyRead  |-> FALSE,        \* bytes of the body were read from the connection
    body      |-> NoPayload,    \* the body read
    job       |-> NoJob,        \* the job passed to jobs().queue()
    enqueue   |-> Blank,        \* the outcome of jobs().queue(): "ok" or "err"
    jobId     |-> 0,            \* the identifier jobs().queue() returned
    response  |-> NoResponse,   \* the Response of the match
    herr      |-> NoError,      \* the error the handler returned
    matched   |-> FALSE,        \* route reached its match
    writes    |-> 0,            \* calls of connection.write
    sent      |-> Blank,        \* what connection.write put on the wire
    result    |-> Blank,        \* what route returned
    shutdowns |-> 0 ]           \* calls of connection.shutdown

Init ==
  /\ accepted = 0
  /\ lastAccept = "ok"
  /\ conn = [c \in Conns |-> NewConn]
  /\ jobs = << >>
  /\ entries = << >>

----------------------------------------------------------------------------
\* serve: the accept loop

\* The `while let Some(stream) = incoming.next().await` loop has not been
\* left: serve has not returned.
AcceptorRunning == lastAccept \in {"ok", "err"}

\* Ok(connection): spawn the task that runs route on it.
AcceptOk ==
  /\ AcceptorRunning
  /\ accepted < MaxConns
  /\ accepted' = accepted + 1
  /\ lastAccept' = "ok"
  /\ conn' = [conn EXCEPT ![accepted + 1].pc = "recognize"]
  /\ UNCHANGED <<jobs, entries>>

\* Err(e) leaving the loop, as `stream?` would.
AcceptErrReturning ==
  /\ AcceptorRunning
  /\ accepted < MaxConns
  /\ lastAccept' = "returned"
  /\ UNCHANGED <<accepted, conn, jobs, entries>>

\* Err(e): warn and continue.
AcceptErr ==
  /\ AcceptorRunning
  /\ accepted < MaxConns
  /\ lastAccept' = "err"
  /\ UNCHANGED <<accepted, conn, jobs, entries>>

----------------------------------------------------------------------------
\* route

\* A `?` before the match answered with the failure Response.
RouteFailsResponding(c, e) ==
  conn' = [conn EXCEPT ![c] =
             [NewConn EXCEPT !.pc = "write", !.response = Cors(ResponseFailed), !.herr = e]]

\* route returns Err(e) from a `?` before the match: nothing was written.
RouteFails(c, e) ==
  conn' = [conn EXCEPT ![c] = [NewConn EXCEPT !.pc = "returned", !.result = e]]

\* Respond with `?` in place of unwrap_or_else: an Err leaves route unwritten.
RespondPropagating(c, r, result) ==
  IF result.ok
  THEN conn' = [conn EXCEPT ![c] =
                  [r EXCEPT !.pc = "write", !.response = result.response, !.herr = result.err]]
  ELSE conn' = [conn EXCEPT ![c] =
                  [NewConn EXCEPT !.pc = "returned", !.matched = TRUE, !.result = result.err]]

\* The match produced `result` in the task state r: unwrap_or_else, then
\* the task is suspended in connection.write.
Respond(c, r, result) ==
  conn' = [conn EXCEPT ![c] =
             [r EXCEPT !.pc = "write",
                       !.response = unwrap_or_else(result),
                       !.herr = result.err]]

\* recognize(&mut connection).await?
Recognize(c) ==
  /\ conn[c].pc = "recognize"
  /\ \/ RouteFails(c, "recognize")
     \/ \E h \in Heads :
          conn' = [conn EXCEPT ![c].pc = "for_request", ![c].method = h[1], ![c].path = h[2]]
  /\ UNCHANGED <<accepted, lastAccept, jobs, entries>>

\* extract_parts(&head)
extract_parts(method, path) ==
  IF method = NoMethod THEN "extract_parts"
  ELSE IF path = NoPath THEN "extract_parts"
  ELSE NoError

\* path.parse::<Uri>()
parse(path) == IF path = BadUri THEN "parse" ELSE NoError

\* The arm of the match for a handler that is entered with the task state r.
Invoke(c, r) ==
  CASE r.handler = "health_check" -> Respond(c, r, health_check)
    [] r.handler = "games::find" ->
         \E ids \in {<< >>, <<"G1">>, <<"G2">>, <<"G1", "G2">>},
            load \in QueryOutcomes, details \in QueryOutcomes :
              Respond(c, r, find(r.authority, ids, load, details))
    [] r.handler = "games::create" ->
         IF create_authority(r.authority).done
         THEN Respond(c, r, create_authority(r.authority).result)
         ELSE conn' = [conn EXCEPT ![c] = [r EXCEPT !.pc = "read_size"]]
    [] r.handler = "games::create_entry" ->
         IF create_entry_authority(r.authority).done
         THEN Respond(c, r, create_entry_authority(r.authority).result)
         ELSE conn' = [conn EXCEPT ![c] = [r EXCEPT !.pc = "read_size"]]
    [] r.handler = "jobs::find" ->
         conn' = [conn EXCEPT ![c] = [r EXCEPT !.pc = "jobs_find"]]

\* builder.for_request(&head).await?, extract_parts, parse, and the match
\* up to the first .await of the arm taken.
Dispatch(c) ==
  /\ conn[c].pc = "for_request"
  /\ \/ RouteFails(c, "for_request")
     \/ /\ extract_parts(conn[c].method, conn[c].path) # NoError
        /\ RouteFails(c, extract_parts(conn[c].method, conn[c].path))
     \/ /\ extract_parts(conn[c].method, conn[c].path) = NoError
        /\ parse(conn[c].path) # NoError
        /\ RouteFails(c, parse(conn[c].path))
     \/ /\ extract_parts(conn[c].method, conn[c].path) = NoError
        /\ parse(conn[c].path) = NoError
        /\ \E a \in Authorities :
             LET arm == Route(conn[c].method, conn[c].path)
                 r == [conn[c] EXCEPT !.method = Blank, !.path = Blank,
                                      !.authority = a, !.arm = arm, !.matched = TRUE]
             IN  IF arm = PreflightArm THEN Respond(c, r, Ok(Cors(ResponseDefault)))
                 ELSE IF arm = NotFoundArm THEN Respond(c, r, Ok(Cors(ResponseNotFound)))
                 ELSE /\ arm \in ReachedHandlers
                      /\ Invoke(c, [r EXCEPT !.handler = arm])
  /\ UNCHANGED <<accepted, lastAccept, jobs, entries>>

\* read_size_async(..).await? and deserialize in games::create: with a
\* payload the task enters records().query(LOAD_LOBBY_DETAILS, ..), a call
\* without .await, which keeps the thread that polls the task until it
\* returns.
CreateRead(c) ==
  /\ conn[c].pc = "read_size"
  /\ conn[c].handler = "games::create"
  /\ \E body \in Bodies(LobbyIds) :
       LET r == [conn[c] EXCEPT !.bodyRead = TRUE, !.body = body]
       IN  IF ~ReadPayload(body).ok
           THEN Respond(c, r, ReadPayload(body))
           ELSE conn' = [conn EXCEPT ![c] = [r EXCEPT !.pc = "query"]]
  /\ UNCHANGED <<accepted, lastAccept, jobs, entries>>

\* records().query(LOAD_LOBBY_DETAILS, ..) returns in games::create, up to
\* jobs().queue().
CreateLookup(c) ==
  /\ conn[c].pc = "query"
  /\ \E lookup \in QueryOutcomes :
       LET step == create_lookup(conn[c].authority, conn[c].body, lookup)
       IN  IF step.done
           THEN Respond(c, conn[c], step.result)
           ELSE conn' = [conn EXCEPT ![c] = [conn[c] EXCEPT !.pc = "queue", !.job = step.job]]
  /\ UNCHANGED <<accepted, lastAccept, jobs, entries>>

\* read_size_async(..).await? in games::create_entry, up to jobs().queue().
CreateEntryRead(c) ==
  /\ conn[c].pc = "read_size"
  /\ conn[c].handler = "games::create_entry"
  /\ \E body \in Bodies(RoundIds), lookup \in QueryOutcomes, insert \in InsertOutcomes :
       LET step == create_entry_insert(conn[c].authority, body, lookup, insert)
           r == [conn[c] EXCEPT !.bodyRead = TRUE, !.body = body]
       IN  /\ IF step.done
              THEN Respond(c, r, step.result)
              ELSE conn' = [conn EXCEPT ![c] = [r EXCEPT !.pc = "queue", !.job = step.job]]
           /\ entries' = IF step.inserted
                         THEN Append(entries, [round |-> body.value, user |-> conn[c].authority])
                         ELSE entries
  /\ UNCHANGED <<accepted, lastAccept, jobs>>

\* What the handler suspended in jobs().queue() returns for its outcome.
AfterQueue(handler, queued) ==
  IF handler = "games::create" THEN create_queued(queued)
  ELSE create_entry_queued(queued)

\* jobs().queue(&job).await in games::create and games::create_entry.
Queue(c) ==
  /\ conn[c].pc = "queue"
  /\ \/ /\ jobs' = Queued(jobs, conn[c].job, c)
        /\ Respond(c, [conn[c] EXCEPT !.enqueue = "ok", !.jobId = NewJobId(jobs)],
                   AfterQueue(conn[c].handler, [ok |-> TRUE, id |-> NewJobId(jobs)]))
     \/ /\ jobs' = jobs
        /\ Respond(c, [conn[c] EXCEPT !.enqueue = "err"],
                   AfterQueue(conn[c].handler, [ok |-> FALSE, id |-> 0]))
  /\ UNCHANGED <<accepted, lastAccept, entries>>

\* routes::jobs::find(&ctx, &uri).await
JobsFind(c) ==
  /\ conn[c].pc = "jobs_find"
  /\ \E id \in 1 .. MaxConns + 1 : Respond(c, conn[c], jobs_find(jobs, id))
  /\ UNCHANGED <<accepted, lastAccept, jobs, entries>>

\* connection.write(format!("{}", response).as_bytes()).await.map(|_| ()):
\* one call; it fails, or it takes some or all of the bytes.  route returns.
Write(c) ==
  /\ conn[c].pc = "write"
  /\ \E outcome \in {"err", "partial", "full"} :
       conn' = [conn EXCEPT ![c] =
                  [NewConn EXCEPT !.pc = "returned",
                                  !.matched = TRUE,
                                  !.writes = conn[c].writes + 1,
                                  !.sent = IF outcome = "err" THEN "nothing" ELSE outcome,
                                  !.result = IF outcome = "err" THEN "write" ELSE "ok"]]
  /\ UNCHANGED <<accepted, lastAccept, jobs, entries>>

\* A task that leaves on the Err of route before it shuts down.
ShutdownOnOk(c) ==
  /\ conn[c].pc = "returned"
  /\ conn' = [conn EXCEPT ![c].pc = "closed", ![c].result = Blank, ![c].sent = Blank,
                           ![c].shutdowns = IF conn[c].result = "ok"
                                            THEN conn[c].shutdowns + 1
                                            ELSE conn[c].shutdowns]
  /\ UNCHANGED <<accepted, lastAccept, jobs, entries>>

\* The spawned task after route returned: warn on Err, then shut down.
Shutdown(c) ==
  /\ conn[c].pc = "returned"
  /\ conn' = [conn EXCEPT ![c].pc = "closed", ![c].result = Blank, ![c].sent = Blank,
                           ![c].shutdowns = conn[c].shutdowns + 1]
  /\ UNCHANGED <<accepted, lastAccept, jobs, entries>>

----------------------------------------------------------------------------
\* The worker

\* One worker execution: a pending job runs to Completed or Failed.
Work(i) ==
  /\ i \in Claimable(jobs)
  /\ \E done \in Completions :
       jobs' = [jobs EXCEPT ![i].status = done.status,
                            ![i].result = done.result,
                            ![i].runs = jobs[i].runs + 1]
  /\ UNCHANGED <<accepted, lastAccept, conn, entries>>

----------------------------------------------------------------------------

Next ==
  \/ AcceptOk
  \/ AcceptErr
  \/ \E c \in Conns : Recognize(c)
  \/ \E c \in Conns : Dispatch(c)
  \/ \E c \in Conns : CreateRead(c)
  \/ \E c \in Conns : CreateLookup(c)
  \/ \E c \in Conns : CreateEntryRead(c)
  \/ \E c \in Conns : Queue(c)
  \/ \E c \in Conns : JobsFind(c)
  \/ \E c \in Conns : Write(c)
  \/ \E c \in Conns : Shutdown(c)
  \/ \E i \in 1 .. MaxConns : Work(i)

Spec == Init /\ [][Next]_vars

----------------------------------------------------------------------------
\* The tasks of task::spawn on an executor with a single worker thread (the
\* executor starts one worker per core).  serve itself runs on the thread
\* that called it.

\* Another task is inside records().query(..): it has not returned to the
\* executor, so the worker cannot poll the task of c.
WorkerHeld(c) == \E d \in Conns \ {c} : conn[d].pc = "query"

\* One poll of the task of c: from one .await to the next.
Poll(c) ==
  \/ Recognize(c)
  \/ Dispatch(c)
  \/ CreateRead(c)
  \/ CreateLookup(c)
  \/ CreateEntryRead(c)
  \/ Queue(c)
  \/ JobsFind(c)
  \/ Write(c)
  \/ Shutdown(c)

OneWorkerNext ==
  \/ AcceptOk
  \/ AcceptErr
  \/ \E c \in Conns : ~WorkerHeld(c) /\ Poll(c)
  \/ \E i \in 1 .. MaxConns : Work(i)

\* Clients keep connecting, and the executor polls every task it can, the
\* task of connection 1 excepted: that one may stall wherever it is.
OneWorkerSpec ==
  /\ Init
  /\ [][OneWorkerNext]_vars
  /\ WF_vars(AcceptOk)
  /\ \A c \in Conns \ {1} : WF_vars(~WorkerHeld(c) /\ Poll(c))

----------------------------------------------------------------------------
\* Properties

\* The records of the job store a connection's handler enqueued.
EnqueuedBy(c) == { i \in 1 .. Len(jobs) : jobs[i].by = c }

\* C1: every path of route through its match (preflight, a handler's Ok, a
\* handler's Err, the not-found fallback) ends in exactly one call of
\* connection.write: the response is determined before any write, route
\* does not return from the match without one, and never makes a second.
C1_ExactlyOneWrite ==
  \A c \in Conns :
    /\ conn[c].writes <= 1
    /\ conn[c].pc \notin {"write", "returned", "closed"} => conn[c].writes = 0
    /\ conn[c].pc = "write" =>
         conn[c].matched /\ conn[c].writes = 0 /\ conn[c].response # NoResponse
    /\ (conn[c].pc \in {"returned", "closed"} /\ conn[c].matched) => conn[c].writes = 1

C1_Witness ==
  \E c, d \in Conns :
    /\ conn[c].pc = "returned" /\ conn[c].matched /\ conn[c].writes = 1
    /\ conn[d].pc = "write" /\ conn[d].herr \in HandlerErrors

\* C2: a handler's error becomes the failure Response with the CORS origin
\* of the context, the same Response whatever the error was, and route
\* never returns a handler's error.
C2_HandlerErrorIsGenericFailure ==
  \A c \in Conns :
    /\ (conn[c].pc = "write" /\ conn[c].herr # NoError) =>
         conn[c].response = [kind |-> "failed", cors |-> CorsOrigin, body |-> NoBody]
    /\ conn[c].result \in {Blank, "ok"} \cup RouteErrors

C2_Witness ==
  \E c, d \in Conns :
    /\ conn[c].pc = "write" /\ conn[c].herr = "queue"
    /\ conn[d].pc = "write" /\ conn[d].herr = "deserialize"
    /\ conn[c].response = conn[d].response

\* C3: an OPTIONS request that gets a response gets, in the step that
\* dispatches it, the default Response with the CORS origin and no body,
\* whatever its path and authority: no handler is invoked, no body is read,
\* no job is enqueued and no entry is inserted.
C3_Preflight ==
  [][ \A c \in Conns :
        ( /\ conn[c].pc = "for_request"
          /\ conn[c].method = "OPTIONS"
          /\ conn'[c].pc \notin {"for_request", "returned"} )
        => /\ conn'[c].pc = "write"
           /\ conn'[c].response = [kind |-> "default", cors |-> CorsOrigin, body |-> NoBody]
           /\ conn'[c].handler = Blank
           /\ ~conn'[c].bodyRead
           /\ conn'[c].enqueue = Blank
           /\ jobs' = jobs
           /\ entries' = entries ]_vars

C3_Witness ==
  \E c, d \in Conns :
    /\ conn[c].pc = "write" /\ conn[c].arm = PreflightArm /\ conn[c].authority \in Users
    /\ conn[d].pc = "write" /\ conn[d].arm = PreflightArm /\ conn[d].authority = None

\* C4: a well-formed request that is not OPTIONS and whose (method, path) is
\* not registered gets, in the step that dispatches it, the not-found
\* Response with the CORS origin, as the Ok value of the match, and no
\* handler is invoked.
C4_Unregistered ==
  [][ \A c \in Conns :
        ( /\ conn[c].pc = "for_request"
          /\ conn[c].method \in Methods \ {"OPTIONS"}
          /\ conn[c].path \in Paths
          /\ <<conn[c].method, conn[c].path>> \notin Registered
          /\ conn'[c].pc \notin {"for_request", "returned"} )
        => /\ conn'[c].pc = "write"
           /\ conn'[c].response = [kind |-> "not_found", cors |-> CorsOrigin, body |-> NoBody]
           /\ conn'[c].herr = NoError
           /\ conn'[c].handler = Blank
           /\ jobs' = jobs ]_vars

C4_Witness ==
  \E c \in Conns :
    /\ conn[c].pc = "write" /\ conn[c].arm = NotFoundArm
    /\ conn[c].response.kind = "not_found"

\* C5: games::create, games::find and games::create_entry called with
\* Authority::None return Ok with the not-found Response and the CORS
\* origin, never an error and never another status.
C5_AnonymousIsNotFound ==
  \A c \in Conns :
    ( /\ conn[c].pc = "write"
      /\ conn[c].handler \in GamesHandlers
      /\ conn[c].authority = None )
    => /\ conn[c].response = [kind |-> "not_found", cors |-> CorsOrigin, body |-> NoBody]
       /\ conn[c].herr = NoError

C5_Witness ==
  \E c, d \in Conns :
    /\ conn[c].pc = "write" /\ conn[c].handler = "games::create" /\ conn[c].authority = None
    /\ conn[d].pc = "write" /\ conn[d].handler = "games::create_entry"
    /\ conn[d].authority = None

\* C6: when jobs().queue() fails in games::create or games::create_entry,
\* the handler still returns Ok with a success Response.
C6_EnqueueFailureSwallowed ==
  \A c \in Conns :
    (conn[c].pc = "write" /\ conn[c].enqueue = "err")
    => /\ conn[c].herr = NoError
       /\ conn[c].response.kind \in {"default", "ok_json"}

\* What C7 says of a POST /games whose response is determined: one
\* CreateGame job of this request in the store, with the user as creator and
\* the requested lobby, the 200 Response with the handle of that job, and a
\* poll of the job while it is pending answering with the same handle.
C7_Outcome(c) ==
  /\ conn[c].enqueue = "ok"
  /\ conn[c].jobId \in JobIds(jobs)
  /\ Cardinality(EnqueuedBy(c)) = 1
  /\ \A i \in EnqueuedBy(c) :
       /\ jobs[i].id = conn[c].jobId
       /\ jobs[i].job = [variant |-> "CreateGame", creator |-> conn[c].authority,
                         key |-> conn[c].body.value, result |-> "null"]
       /\ jobs[i].status = "Pending" =>
            jobs_find(jobs, conn[c].jobId).response
              = [kind |-> "ok_json", cors |-> CorsOrigin,
                 body |-> <<JobHandle(conn[c].jobId, "null")>>]
  /\ conn[c].response = [kind |-> "ok_json", cors |-> CorsOrigin,
                         body |-> <<JobHandle(conn[c].jobId, "null")>>]

\* The request of C7: POST /games by a user, with a well-formed body naming
\* a lobby of that user.
C7_Request(c) ==
  /\ conn[c].pc = "write"
  /\ conn[c].handler = "games::create"
  /\ conn[c].authority \in Users
  /\ conn[c].body.kind = "ok"
  /\ <<conn[c].body.value, conn[c].authority>> \in LobbyMembers

C8_UnknownLobby ==
  \A c \in Conns :
    ( /\ conn[c].pc = "write"
      /\ conn[c].handler = "games::create"
      /\ conn[c].authority \in Users
      /\ conn[c].body.kind = "ok"
      /\ <<conn[c].body.value, conn[c].authority>> \notin LobbyMembers
      /\ conn[c].herr = NoError )
    => /\ conn[c].response = [kind |-> "not_found", cors |-> CorsOrigin, body |-> NoBody]
       /\ conn[c].enqueue = Blank
       /\ conn[c].jobId = 0
       /\ EnqueuedBy(c) = {}

C8_Witness ==
  \E c \in Conns :
    /\ conn[c].pc = "write" /\ conn[c].handler = "games::create"
    /\ conn[c].authority = "U1" /\ conn[c].body = [kind |-> "ok", value |-> "L2"]
    /\ conn[c].response.kind = "not_found"
    /\ Len(jobs) = 1

\* C9: an enqueue that succeeds stores one record whose identifier no
\* earlier record has and hands that identifier to its caller, and a status
\* read in the state the enqueue leaves finds the record Pending, no result.
C9_FreshPendingIdentifier ==
  [][ Len(jobs') > Len(jobs) =>
        LET r == jobs'[Len(jobs')]
        IN  /\ Len(jobs') = Len(jobs) + 1
            /\ r.id \notin JobIds(jobs)
            /\ \A c \in Conns : conn[c].jobId # r.id
            /\ \E c \in Conns : conn'[c].jobId = r.id /\ conn'[c].enqueue = "ok"
            /\ JobStatus(jobs', r.id) = [found |-> TRUE, status |-> "Pending", result |-> "null"]
    ]_vars

C9_Witness ==
  /\ Len(jobs) = 2
  /\ jobs[1].job = jobs[2].job
  /\ jobs[1].id # jobs[2].id
  /\ jobs[1].by # jobs[2].by

\* C10: a record of the job store is created Pending; a step changes it only
\* from Pending to Completed or Failed, as one worker execution, leaving
\* its identifier and job alone; no record is removed, and no record has
\* more than one worker execution.
C10_JobRecordLifecycle ==
  [][ /\ Len(jobs') >= Len(jobs)
      /\ \A i \in 1 .. Len(jobs) :
           jobs'[i] # jobs[i] =>
             /\ jobs[i].status = "Pending"
             /\ jobs'[i].status \in {"Completed", "Failed"}
             /\ jobs'[i].id = jobs[i].id
             /\ jobs'[i].job = jobs[i].job
             /\ jobs'[i].runs = jobs[i].runs + 1
      /\ \A i \in (Len(jobs) + 1) .. Len(jobs') :
           jobs'[i].status = "Pending" /\ jobs'[i].runs = 0
      /\ \A i \in 1 .. Len(jobs') :
           /\ jobs'[i].runs <= 1
           /\ jobs'[i].status = "Pending" <=> jobs'[i].runs = 0
    ]_vars

C10_Witness ==
  /\ Len(jobs) = 2
  /\ jobs[1].status = "Failed"
  /\ jobs[2].status = "Completed"
  /\ jobs[1].runs = 1 /\ jobs[2].runs = 1


\* C11: a record that is Completed keeps its result in every later state, and
\* a status read finds exactly that result; a poll (routes::jobs::find)
\* leaves the job store as it is and answers with the stored result of the
\* identifier it names, or, for an identifier the store does not hold, with
\* the not-found Response as an Ok value, never an error.
C11_StatusRead ==
  [][ /\ \A i \in 1 .. Len(jobs) :
           jobs[i].status = "Completed" =>
             /\ JobStatus(jobs, jobs[i].id)
                  = [found |-> TRUE, status |-> "Completed", result |-> jobs[i].result]
             /\ JobStatus(jobs', jobs[i].id) = JobStatus(jobs, jobs[i].id)
      /\ \A c \in Conns :
           (conn[c].pc = "jobs_find" /\ conn'[c].pc # "jobs_find") =>
             /\ jobs' = jobs
             /\ conn'[c].pc = "write"
             /\ conn'[c].herr = NoError
             /\ \/ /\ conn'[c].response = [kind |-> "not_found", cors |-> CorsOrigin, body |-> NoBody]
                   /\ \E id \in 1 .. MaxConns + 1 : ~JobStatus(jobs, id).found
                \/ /\ conn'[c].response.kind = "ok_json"
                   /\ Len(conn'[c].response.body) = 1
                   /\ \E i \in 1 .. Len(jobs) :
                        conn'[c].response.body[1] = JobHandle(jobs[i].id, jobs[i].result)
    ]_vars

C11_Witness ==
  \E c \in Conns :
    /\ conn[c].pc = "write" /\ conn[c].handler = "jobs::find"
    /\ Len(jobs) = 1 /\ jobs[1].status = "Completed"
    /\ conn[c].response.body = <<JobHandle(jobs[1].id, "result")>>


\* C12: in games::create and games::create_entry, a body over the size limit
\* or one that does not deserialize ends the handler in the step that read
\* it: the Response is the failure Response, and that step neither enqueues
\* a job nor inserts a round entry nor passes a job on to be enqueued.
C12_RejectedBodyHasNoEffect ==
  [][ \A c \in Conns :
        ( /\ conn[c].pc = "read_size"
          /\ conn'[c].pc # "read_size"
          /\ conn'[c].body.kind \in {"oversized", "malformed"} )
        => /\ conn'[c].pc = "write"
           /\ conn'[c].response = [kind |-> "failed", cors |-> CorsOrigin, body |-> NoBody]
           /\ conn'[c].herr = "deserialize"
           /\ conn'[c].job = NoJob
           /\ conn'[c].enqueue = Blank
           /\ jobs' = jobs
           /\ entries' = entries ]_vars

C12_Witness ==
  \E c, d \in Conns :
    /\ conn[c].pc = "write" /\ conn[c].handler = "games::create"
    /\ conn[c].body.kind = "oversized"
    /\ conn[d].pc = "write" /\ conn[d].handler = "games::create_entry"
    /\ conn[d].body.kind = "malformed"


\* C13: the task of a connection whose route has returned, with Ok or with
\* any error, takes one step next, the shutdown of its own connection; a
\* connection is shut down only after its route returned, only by that
\* step, and it is closed exactly when it was shut down once.
C13_ShutdownOnce ==
  [][ \A c \in Conns :
        /\ conn'[c].shutdowns <= 1
        /\ conn'[c].pc = "closed" <=> conn'[c].shutdowns = 1
        /\ (conn[c].pc = "returned" /\ conn'[c] # conn[c]) =>
             conn'[c].pc = "closed" /\ conn'[c].shutdowns = conn[c].shutdowns + 1
        /\ conn'[c].shutdowns # conn[c].shutdowns =>
             /\ conn[c].pc = "returned"
             /\ \A d \in Conns \ {c} : conn'[d] = conn[d]
        /\ conn[c].pc = "closed" => conn'[c] = conn[c] ]_vars

C13_Witness ==
  \E c, d \in Conns :
    /\ conn[c].pc = "closed" /\ ~conn[c].matched /\ conn[c].shutdowns = 1
    /\ conn[d].pc = "closed" /\ conn[d].matched /\ conn[d].shutdowns = 1


\* C14: the accept loop is never left: after an accept error, as after an
\* accepted connection, the next connection can be accepted; and a step in
\* which route returns an error on one connection changes neither the
\* acceptor nor any other connection's task nor the shared stores.
C14_FailureIsolation ==
  [][ /\ AcceptorRunning'
      /\ (lastAccept = "err" /\ accepted < MaxConns) => ENABLED AcceptOk
      /\ (lastAccept' = "err" /\ lastAccept = "ok") => (accepted' = accepted /\ conn' = conn)
      /\ \A c \in Conns :
           ( conn[c].pc # "returned" /\ conn'[c].pc = "returned"
             /\ conn'[c].result # "ok" )
           => /\ accepted' = accepted
              /\ lastAccept' = lastAccept
              /\ jobs' = jobs
              /\ entries' = entries
              /\ \A d \in Conns \ {c} : conn'[d] = conn[d] ]_vars

\* An accept error after a connection whose route returned an error, with a
\* connection left to accept.
C14_Witness ==
  /\ lastAccept = "err"
  /\ accepted = 1
  /\ accepted < MaxConns
  /\ conn[1].pc = "returned"
  /\ conn[1].result \in RouteErrors
  /\ ENABLED AcceptOk


\* C15: when the pipeline of connection 1 stays for ever at one of its
\* suspension points (the head, the context, the body, a record store
\* call, a job queue call), the acceptor still accepts every later
\* connection and every other connection's task reaches its close.
C15_NoStarvation ==
  \A c \in Conns \ {1} :
    <>[](conn[1].pc \in {"recognize", "for_request", "read_size", "query", "queue", "jobs_find"})
      => (<>(accepted = MaxConns) /\ <>(conn[c].pc = "closed"))


\* C16: a route that returned one of the errors raised before the match
\* (recognize, for_request, extract_parts, parse) has written nothing: no
\* call of write, no byte sent, the match not reached; the error is the
\* result the task gets; and a task is in connection.write only after the
\* match.
C16_NoResponseBeforeDispatch ==
  \A c \in Conns :
    /\ ( conn[c].pc = "returned"
         /\ conn[c].result \in {"recognize", "for_request", "extract_parts", "parse"} )
       => /\ conn[c].writes = 0
          /\ conn[c].sent = Blank
          /\ ~conn[c].matched
          /\ conn[c].response = NoResponse
    /\ (conn[c].pc \in {"returned", "closed"} /\ ~conn[c].matched) =>
         /\ conn[c].writes = 0
         /\ conn[c].pc = "returned" => conn[c].result \in {"recognize", "for_request", "extract_parts", "parse"}
    /\ conn[c].pc \in {"recognize", "for_request"} => (conn[c].writes = 0 /\ ~conn[c].matched)
    /\ conn[c].pc = "write" => conn[c].matched

C16_Witness ==
  \E c, d \in Conns :
    /\ conn[c].pc = "returned" /\ conn[c].result = "parse"
    /\ conn[d].pc = "returned" /\ conn[d].result = "recognize"


\* C17: a route that went through the match made one call of write and,
\* when it returned Ok, every byte of the Response was sent; when the write
\* failed, route returned that error; no connection sees a second write.
C17_WrittenOnceFully ==
  \A c \in Conns :
    /\ conn[c].writes <= 1
    /\ (conn[c].pc = "returned" /\ conn[c].matched) =>
         /\ conn[c].writes = 1
         /\ \/ conn[c].result = "ok" /\ conn[c].sent = "full"
            \/ conn[c].result = "write" /\ conn[c].sent = "nothing"


C19_AnonymousHasNoEffect ==
  [][ /\ \A c \in Conns :
           ( conn[c].pc = "for_request" /\ conn'[c].authority = None
             /\ conn'[c].handler \in GamesHandlers )
           => /\ conn'[c].pc = "write"
              /\ conn'[c].response = [kind |-> "not_found", cors |-> CorsOrigin, body |-> NoBody]
              /\ ~conn'[c].bodyRead
              /\ conn'[c].body = NoPayload
              /\ conn'[c].job = NoJob
              /\ conn'[c].enqueue = Blank
              /\ jobs' = jobs
              /\ entries' = entries
      /\ \A c \in Conns :
           (conn[c].authority = None /\ conn[c].handler \in GamesHandlers)
           => conn[c].pc \notin {"read_size", "query", "queue"}
      /\ \A ids \in {<< >>, <<"G1">>, <<"G1", "G2">>}, load \in QueryOutcomes, details \in QueryOutcomes :
           find(None, ids, load, details) = Ok(Cors(ResponseNotFound)) ]_vars

C19_Witness ==
  \E c, d \in Conns :
    /\ conn[c].pc = "write" /\ conn[c].handler = "games::create_entry" /\ conn[c].authority = None
    /\ conn[d].pc = "write" /\ conn[d].handler = "games::find" /\ conn[d].authority = None
    /\ ~conn[c].bodyRead /\ ~conn[d].bodyRead


\* C20: in games::create_entry the task goes on to the enqueue only in the
\* step in which the insert gave a row, with the CheckRoundFulfillment job
\* of that row's round; a not-found answer and the success answer of an
\* insert without a row leave the round entries and the job store as they
\* were and build no job; the enqueue stores at most one record, that job;
\* so every stored CheckRoundFulfillment job is for the round of a stored
\* entry and no connection has more than one record.
C20_EnqueueAfterInsert ==
  [][ /\ \A c \in Conns :
           ( conn[c].pc = "read_size" /\ conn[c].handler = "games::create_entry"
             /\ conn'[c].pc # "read_size" )
           => /\ jobs' = jobs
              /\ conn'[c].enqueue = Blank
              /\ \/ /\ conn'[c].pc = "queue"
                    /\ conn'[c].body.kind = "ok"
                    /\ entries' = Append(entries, [round |-> conn'[c].body.value,
                                                   user |-> conn[c].authority])
                    /\ conn'[c].job = [variant |-> "CheckRoundFulfillment", creator |-> Blank,
                                       key |-> entries'[Len(entries')].round, result |-> "null"]
                 \/ /\ conn'[c].pc = "write"
                    /\ conn'[c].job = NoJob
                    /\ entries' = entries
                    /\ conn'[c].response.kind \in {"not_found", "default", "failed"}
                    /\ conn'[c].response.kind = "not_found" =>
                         <<conn'[c].body.value, conn[c].authority>> \notin RoundMembers
                    /\ conn'[c].response.kind = "default" =>
                         <<conn'[c].body.value, conn[c].authority>> \in RoundMembers
      /\ \A c \in Conns :
           ( conn[c].pc = "queue" /\ conn[c].handler = "games::create_entry"
             /\ conn'[c].pc # "queue" )
           => /\ conn'[c].pc = "write"
              /\ entries' = entries
              /\ \/ jobs' = jobs /\ conn'[c].enqueue = "err"
                 \/ /\ jobs' = Append(jobs, jobs'[Len(jobs')])
                    /\ jobs'[Len(jobs')].job = conn[c].job
                    /\ jobs'[Len(jobs')].by = c
                    /\ conn'[c].enqueue = "ok"
      /\ \A c \in Conns : Cardinality(EnqueuedBy(c)') <= 1
      /\ \A i \in 1 .. Len(jobs') :
           jobs'[i].job.variant = "CheckRoundFulfillment" =>
             \E e \in 1 .. Len(entries') : entries'[e].round = jobs'[i].job.key ]_vars

C20_Witness ==
  \E c, d \in Conns :
    /\ conn[c].pc = "write" /\ conn[c].handler = "games::create_entry" /\ conn[c].enqueue = "ok"
    /\ Len(entries) = 1
    /\ \E i \in EnqueuedBy(c) : jobs[i].job = CheckRoundFulfillment(entries[1].round)
    /\ conn[d].pc = "write" /\ conn[d].handler = "games::create_entry" /\ conn[d].bodyRead
    /\ conn[d].enqueue = Blank /\ conn[d].response.kind = "default"

====
